---- MODULE Spec2Model ----
(***************************************************************************)
(* Model of src/app.py: the product catalog (the module-level dict          *)
(* `products`), the detection-to-overlay pipeline (process_image,           *)
(* perform_object_detection, get_product_info, overlay_product_info) and    *)
(* the upload handler around it.                                            *)
(*                                                                         *)
(* Strings are sequences of ASCII code points, so that str.lower() and      *)
(* str.capitalize() are computed and not assumed.  File names are           *)
(* sequences of tokens ("a", ".jpg", "_resized", "output_").  Python dicts  *)
(* keep insertion order: a dict is a sequence of <<key, value>> pairs with   *)
(* distinct keys.  A product dict is a TLA+ record whose DOMAIN is the set   *)
(* of keys the dict has, so a missing key is a missing field.               *)
(***************************************************************************)
EXTENDS Integers, Sequences, FiniteSets, TLC

VARIABLES
    products,            \* app.py:34   dict: product id -> reference of a product dict
    heap,                \* the product dict objects, by reference
    fs,                  \* the files: path -> content
    image_path,          \* the argument of process_image
    text_sizes,          \* the (width, height) measures the font can give a label
    pc,                  \* position of the process_image call
    detections,          \* result of perform_object_detection
    product_infos,       \* result of get_product_info
    canvas,              \* app.py:358  the decoded image overlay_product_info draws on
    object_colors,       \* app.py:362  dict: class name -> color
    drawn_boxes,         \* rectangles drawn by overlay_product_info, in order
    displayed_products,  \* app.py:379  dict: class name -> group
    labels,              \* labels drawn by overlay_product_info, in order
    ret,                 \* return value of process_image
    reader,              \* a get_product_info call running beside the catalog handlers
    writers,             \* the catalog handlers in progress, one per request thread
    ops,                 \* number of catalog requests started
    held,                \* history: the (price, in_stock) pairs each product dict has held
    reqs,                \* the upload_image requests in progress
    owner                \* history: the request that last wrote each file

vars == <<products, heap, fs, image_path, text_sizes, pc, detections,
          product_infos, canvas, object_colors, drawn_boxes, displayed_products, labels, ret,
          reader, writers, ops, held, reqs, owner>>

\* the state of the catalog, of one process_image call, of the threads
catalogVars == <<products, heap>>
callVars == <<fs, image_path, text_sizes, pc, detections, product_infos, canvas,
              object_colors, drawn_boxes, displayed_products, labels, ret>>
threadVars == <<reader, writers, ops, held, reqs, owner>>
uploadVars == <<reqs, owner>>

(***************************************************************************)
(* Bounds of the model.                                                    *)
(***************************************************************************)
MaxId == 2          \* product ids range over 1..MaxId
MaxDets == 2        \* raw records the detector returns for one image
MaxOps == 2         \* catalog requests served while one get_product_info call runs
NumColors == 2      \* colors the random source can draw

(***************************************************************************)
(* Python values.                                                          *)
(***************************************************************************)
None == [none |-> TRUE]
Some(v) == [none |-> FALSE, val |-> v]

Range(s) == {s[i] : i \in DOMAIN s}

\* Sequences over S of length at most n.
SeqUpTo(S, n) == UNION {[1..k -> S] : k \in 0..n}

(***************************************************************************)
(* Strings: sequences of ASCII code points.                                *)
(***************************************************************************)
IsUpper(c) == c \in 65..90
IsLower(c) == c \in 97..122
LowerChar(c) == IF IsUpper(c) THEN c + 32 ELSE c
UpperChar(c) == IF IsLower(c) THEN c - 32 ELSE c

\* str.lower()
Lower(s) == [i \in DOMAIN s |-> LowerChar(s[i])]

\* str.capitalize(): first character upper-cased, the rest lower-cased
Capitalize(s) == [i \in DOMAIN s |-> IF i = 1 THEN UpperChar(s[i]) ELSE LowerChar(s[i])]

str_cat == <<99, 97, 116>>      \* "cat"
str_Cat == <<67, 97, 116>>      \* "Cat"
str_CAT == <<67, 65, 84>>       \* "CAT"
str_dog == <<100, 111, 103>>    \* "dog"

(***************************************************************************)
(* Ordered dicts: sequences of <<key, value>> with distinct keys.           *)
(***************************************************************************)
DictKeys(d) == {d[i][1] : i \in DOMAIN d}
DictHas(d, k) == k \in DictKeys(d)
DictIndex(d, k) == CHOOSE i \in DOMAIN d : d[i][1] = k
DictGet(d, k) == d[DictIndex(d, k)][2]
\* d[k] = v: an existing key keeps its position, a new key goes last
DictSet(d, k, v) ==
    IF DictHas(d, k) THEN [d EXCEPT ![DictIndex(d, k)] = <<k, v>>]
    ELSE Append(d, <<k, v>>)
\* del d[k]
DictDel(d, k) ==
    LET i == DictIndex(d, k)
    IN  SubSeq(d, 1, i - 1) \o SubSeq(d, i + 1, Len(d))
\* d.values()
DictValues(d) == [i \in DOMAIN d |-> d[i][2]]

(***************************************************************************)
(* The catalog.  Product ids are the strings f"{n:03d}": digit sequences.   *)
(***************************************************************************)
RECURSIVE Digits(_)
\* the decimal digits of n >= 0, most significant first
Digits(n) == IF n < 10 THEN <<n>> ELSE Append(Digits(n \div 10), n % 10)

\* f"{n:03d}": zero-padded to at least three digits
FormatId(n) ==
    LET ds == Digits(n)
    IN  IF Len(ds) >= 3 THEN ds ELSE [i \in 1..(3 - Len(ds)) |-> 0] \o ds

RECURSIVE ParseInt(_)
\* int(pid)
ParseInt(ds) ==
    IF Len(ds) = 0 THEN 0
    ELSE 10 * ParseInt(SubSeq(ds, 1, Len(ds) - 1)) + ds[Len(ds)]

ProductNames == {str_Cat, str_dog}
Prices == {1, 2}

\* The product dicts that may be stored under id n: add_product and
\* edit_product always set 'in_stock'; create_product and update_product store
\* the request's JSON, which must hold 'name' and 'price' only.
\* The products of a catalog get different prices (n for id n), so that the
\* price tells which product a product_info was taken from.
ProductDicts(n) ==
    {[id |-> FormatId(n), name |-> nm, price |-> n, in_stock |-> st] :
        nm \in ProductNames, st \in BOOLEAN}
    \cup {[id |-> FormatId(n), name |-> nm, price |-> n] : nm \in ProductNames}

\* The catalogs the CRUD handlers can leave behind: ids ascend in insertion
\* order (a new id is max + 1 and goes last), product k of the dict is object k.
AscendingIds == {s \in SeqUpTo(1..MaxId, MaxId) :
                    \A i \in 1..(Len(s) - 1) : s[i] < s[i + 1]}
Catalogs ==
    UNION {{[products |-> [i \in DOMAIN ids |-> <<FormatId(ids[i]), i>>],
             heap |-> hp] :
                hp \in {h \in [DOMAIN ids -> UNION {ProductDicts(n) : n \in 1..MaxId}] :
                            \A i \in DOMAIN ids : h[i].id = FormatId(ids[i])}} :
           ids \in AscendingIds}

(***************************************************************************)
(* The detector.  The content of an image file holds its size and what the  *)
(* detector does on it: the raw records (a class index, a box in half       *)
(* pixels where the code has floats, a confidence) and fail_at (0: the      *)
(* detector does not raise; 1: it raises when invoked; k + 1: it raises      *)
(* while record k is converted).  The label table maps a class index to a   *)
(* class name.                                                             *)
(***************************************************************************)
YoloNames == [c \in 0..2 |-> <<str_cat, str_CAT, str_dog>>[c + 1]]

\* float -> int by astype(int): truncation toward zero
AsInt(v) == IF v >= 0 THEN v \div 2 ELSE -((-v) \div 2)

RECURSIVE ConvertRecordsPartial(_, _, _, _)
\* a detector adapter that keeps what it had collected when the detector raised
ConvertRecordsPartial(records, fail_at, i, acc) ==
    IF i > Len(records) THEN Some(acc)
    ELSE IF fail_at = i + 1 THEN Some(acc)
    ELSE ConvertRecordsPartial(records, fail_at, i + 1,
            Append(acc, [class_name |-> YoloNames[records[i].cls],
                         bbox |-> [k \in 1..4 |-> AsInt(records[i].box[k])],
                         score |-> records[i].conf]))

RECURSIVE ConvertRecords(_, _, _, _)
\* app.py:309-316, with the except clause of 317-319
ConvertRecords(records, fail_at, i, acc) ==
    IF i > Len(records) THEN Some(acc)
    ELSE IF fail_at = i + 1 THEN None
    ELSE ConvertRecords(records, fail_at, i + 1,
            Append(acc, [class_name |-> YoloNames[records[i].cls],
                         bbox |-> [k \in 1..4 |-> AsInt(records[i].box[k])],
                         score |-> records[i].conf]))

\* perform_object_detection: the list of detections, or None
PerformObjectDetection(files, path) ==
    IF path \notin DOMAIN files \/ "records" \notin DOMAIN files[path] THEN None
    ELSE IF files[path].fail_at = 1 THEN None
    ELSE ConvertRecords(files[path].records, files[path].fail_at, 1, <<>>)

(***************************************************************************)
(* The matcher.                                                            *)
(***************************************************************************)
RECURSIVE BuildLookup(_, _, _, _)
\* app.py:332: {product['name'].lower(): product for product in products.values()}
BuildLookup(refs, hp, i, acc) ==
    IF i > Len(refs) THEN acc
    ELSE BuildLookup(refs, hp, i + 1, DictSet(acc, Lower(hp[refs[i]].name), refs[i]))

ProductLookup(prods, hp) == BuildLookup(DictValues(prods), hp, 1, <<>>)

Return(v) == [kind |-> "return", val |-> v]
Raise(e) == [kind |-> "raise", exc |-> e]

\* a matcher that compares the class name as the detector spelled it
MatchesCaseSensitive(lookup, class_name) == DictHas(lookup, class_name)

\* app.py:334-335: the lower-cased class name is a key of the lookup
Matches(lookup, class_name) == DictHas(lookup, Lower(class_name))

RECURSIVE MatchLoop(_, _, _, _, _)
\* app.py:333-343
MatchLoop(dets, lookup, hp, i, acc) ==
    IF i > Len(dets) THEN Return(acc)
    ELSE IF ~Matches(lookup, dets[i].class_name)
         THEN MatchLoop(dets, lookup, hp, i + 1, acc)
    ELSE LET product == hp[DictGet(lookup, Lower(dets[i].class_name))]
         IN  IF "in_stock" \notin DOMAIN product THEN Raise("KeyError")
             ELSE MatchLoop(dets, lookup, hp, i + 1,
                    Append(acc, [class_name |-> Lower(dets[i].class_name),
                                 bbox |-> dets[i].bbox,
                                 price |-> product.price,
                                 in_stock |-> product.in_stock]))

\* get_product_info
GetProductInfo(dets, prods, hp) == MatchLoop(dets, ProductLookup(prods, hp), hp, 1, <<>>)

(***************************************************************************)
(* The overlay renderer.                                                   *)
(***************************************************************************)
RECURSIVE ColorKeys(_, _, _)
\* app.py:363-367: the keys of object_colors, in the order they are inserted
ColorKeys(pinfos, i, acc) ==
    IF i > Len(pinfos) THEN acc
    ELSE LET class_name == Lower(pinfos[i].class_name)
         IN  ColorKeys(pinfos, i + 1,
                IF class_name \in Range(acc) THEN acc ELSE Append(acc, class_name))

\* app.py:367: tuple(random.choices(range(256), k=3)) draws every color
\* independently of the colors drawn before; Colors stands for the triples
Colors == 1..NumColors

\* app.py:362-367: the dicts object_colors can be after the loop
RandomColors(pinfos) ==
    LET keys == ColorKeys(pinfos, 1, <<>>)
    IN  {[i \in DOMAIN keys |-> <<keys[i], pick[i]>>] : pick \in [DOMAIN keys -> Colors]}

\* a lookup that answers the first color assigned, whatever the key
ColorOfFirst(colors, class_name) == colors[1][2]

\* app.py:372-373 and 398: object_colors[class_name]
ColorOf(colors, class_name) == DictGet(colors, class_name)

\* app.py:370-376: one rectangle per product_info
DrawnBoxes(pinfos, colors) ==
    [i \in DOMAIN pinfos |->
        [bbox |-> pinfos[i].bbox, class_name |-> Lower(pinfos[i].class_name),
         color |-> ColorOf(colors, Lower(pinfos[i].class_name))]]

\* app.py:381
GroupKey(info) == Lower(info.class_name)

RECURSIVE GroupLoop(_, _, _)
\* app.py:380-392
GroupLoop(pinfos, i, acc) ==
    IF i > Len(pinfos) THEN acc
    ELSE LET key == GroupKey(pinfos[i])
             grp == IF DictHas(acc, key) THEN DictGet(acc, key)
                    ELSE [price |-> pinfos[i].price,
                          in_stock |-> IF pinfos[i].in_stock THEN "Yes" ELSE "No",
                          bboxes |-> <<>>]
         IN  GroupLoop(pinfos, i + 1,
                DictSet(acc, key, [grp EXCEPT !.bboxes = Append(@, pinfos[i].bbox)]))

\* a grouping that opens a group for every product_info
DisplayedProductsNoMerge(pinfos) ==
    [i \in DOMAIN pinfos |->
        <<Lower(pinfos[i].class_name),
          [price |-> pinfos[i].price,
           in_stock |-> IF pinfos[i].in_stock THEN "Yes" ELSE "No",
           bboxes |-> <<pinfos[i].bbox>>]>>]

\* a grouping that walks the product_infos from the last to the first
DisplayedProductsBackwards(pinfos) ==
    GroupLoop([i \in DOMAIN pinfos |-> pinfos[Len(pinfos) + 1 - i]], 1, <<>>)

\* app.py:379-392
DisplayedProducts(pinfos) == GroupLoop(pinfos, 1, <<>>)

\* app.py:401: the key of max()
Area(bbox) == (bbox[3] - bbox[1]) * (bbox[4] - bbox[2])

\* max() that keeps the last of several maximal boxes
LargestBBoxLast(bboxes) ==
    bboxes[CHOOSE i \in DOMAIN bboxes :
        /\ \A j \in DOMAIN bboxes : Area(bboxes[j]) <= Area(bboxes[i])
        /\ \A j \in DOMAIN bboxes : j > i => Area(bboxes[j]) < Area(bboxes[i])]

\* app.py:401: Python's max() returns the first maximal element
LargestBBox(bboxes) ==
    bboxes[CHOOSE i \in DOMAIN bboxes :
        /\ \A j \in DOMAIN bboxes : Area(bboxes[j]) <= Area(bboxes[i])
        /\ \A j \in DOMAIN bboxes : j < i => Area(bboxes[j]) < Area(bboxes[i])]

\* a horizontal placement that never moves the label
TextXUnadjusted(xmin, text_width, width) == xmin

\* app.py:420, 424-425
TextX(xmin, text_width, width) ==
    IF xmin + text_width > width THEN width - text_width - 5 ELSE xmin

\* a vertical placement that always stays above the box
TextYAbove(ymin, ymax, text_height, height) == ymin - text_height - 5

\* a vertical placement that goes below the box without the last adjustment
TextYNoClamp(ymin, ymax, text_height, height) ==
    IF ymin - text_height - 5 < 0 THEN ymax + 5 ELSE ymin - text_height - 5

\* app.py:421, 426-429
TextY(ymin, ymax, text_height, height) ==
    LET above == ymin - text_height - 5
    IN  IF above < 0
        THEN IF ymax + 5 + text_height > height
             THEN height - text_height - 5
             ELSE ymax + 5
        ELSE above

\* app.py:394-435: the label of one group of displayed_products
Label(class_name, info, size, img, color) ==
    LET largest_bbox == LargestBBox(info.bboxes)
    IN  [class_name |-> class_name,
         color |-> color,
         text |-> [name |-> Capitalize(class_name), price |-> info.price,
                   in_stock |-> info.in_stock],
         anchor |-> largest_bbox,
         text_width |-> size[1],
         text_height |-> size[2],
         text_x |-> TextX(largest_bbox[1], size[1], img.w),
         text_y |-> TextY(largest_bbox[2], largest_bbox[4], size[2], img.h)]

\* os.path.basename and os.path.join on [dir, name]
Basename(path) == path.name
Join(dir, name) == [dir |-> dir, name |-> name]

\* an output name that does not depend on the input
OutputPathFixed(path) == Join("uploads", <<"output_">>)

\* app.py:438-439
OutputPath(path) == Join("uploads", <<"output_">> \o Basename(path))

\* the file written by image.save at app.py:440
\* (the detector is taken to see on it what it sees on the image drawn on)
Annotated(img, boxes, lbls) ==
    [w |-> img.w, h |-> img.h, records |-> img.records, fail_at |-> img.fail_at,
     base |-> img, boxes |-> boxes, labels |-> lbls]

(***************************************************************************)
(* process_image, step by step.  pc: "start" -> "detected" -> "matched" ->  *)
(* "labelling" -> "done"; "raised" when an exception leaves process_image.  *)
(***************************************************************************)
\* app.py:289-291
Detect ==
    /\ pc = "start"
    /\ detections' = PerformObjectDetection(fs, image_path)
    /\ IF detections'.none
       THEN pc' = "done" /\ ret' = None
       ELSE pc' = "detected" /\ ret' = ret
    /\ UNCHANGED <<products, heap, fs, image_path, text_sizes, product_infos,
                   canvas, object_colors, drawn_boxes, displayed_products, labels>>
    /\ UNCHANGED threadVars

\* app.py:292
Match ==
    /\ pc = "detected"
    /\ LET r == GetProductInfo(detections.val, products, heap)
       IN  IF r.kind = "raise"
           THEN pc' = "raised" /\ product_infos' = product_infos
           ELSE pc' = "matched" /\ product_infos' = Some(r.val)
    /\ UNCHANGED <<products, heap, fs, image_path, text_sizes, detections,
                   canvas, object_colors, drawn_boxes, displayed_products, labels, ret>>
    /\ UNCHANGED threadVars

\* app.py:358-392: open the image, draw the boxes, build displayed_products
OverlayBegin ==
    /\ pc = "matched"
    /\ IF image_path \in DOMAIN fs /\ "w" \in DOMAIN fs[image_path]
       THEN /\ canvas' = Some(fs[image_path])
            /\ \E colors \in RandomColors(product_infos.val) :
                /\ object_colors' = colors
                /\ drawn_boxes' = DrawnBoxes(product_infos.val, colors)
            /\ displayed_products' = DisplayedProducts(product_infos.val)
            /\ pc' = "labelling"
       ELSE /\ pc' = "raised"
            /\ UNCHANGED <<canvas, object_colors, drawn_boxes, displayed_products>>
    /\ UNCHANGED <<products, heap, fs, image_path, text_sizes, detections,
                   product_infos, labels, ret>>
    /\ UNCHANGED threadVars

\* app.py:394-435: one iteration of the loop over displayed_products.items()
OverlayLabel ==
    /\ pc = "labelling"
    /\ Len(labels) < Len(displayed_products)
    /\ \E size \in text_sizes :
        LET item == displayed_products[Len(labels) + 1]
        IN  labels' = Append(labels, Label(item[1], item[2], size, canvas.val,
                                           ColorOf(object_colors, item[1])))
    /\ UNCHANGED <<products, heap, fs, image_path, text_sizes, pc, detections,
                   product_infos, canvas, object_colors, drawn_boxes, displayed_products, ret>>
    /\ UNCHANGED threadVars

\* app.py:437-442 and 293-294
OverlaySave ==
    /\ pc = "labelling"
    /\ Len(labels) = Len(displayed_products)
    /\ LET output_image_path == OutputPath(image_path)
       IN  /\ fs' = (output_image_path :> Annotated(canvas.val, drawn_boxes, labels)) @@ fs
           /\ ret' = Some(output_image_path)
    /\ pc' = "done"
    /\ UNCHANGED <<products, heap, image_path, text_sizes, detections,
                   product_infos, canvas, object_colors, drawn_boxes, displayed_products, labels>>
    /\ UNCHANGED threadVars

Next == Detect \/ Match \/ OverlayBegin \/ OverlayLabel \/ OverlaySave

(***************************************************************************)
(* Inputs of a process_image call.                                         *)
(***************************************************************************)
RawRecord(c, b) == [cls |-> c, box |-> b, conf |-> 90]

\* the image files of the given sizes: every list of at most MaxDets raw
\* records of the pool, with the points at which the detector may raise
ImageFiles(sizes, pool, fails) ==
    {[w |-> sz[1], h |-> sz[2], records |-> recs, fail_at |-> f] :
        sz \in sizes, recs \in SeqUpTo(pool, MaxDets), f \in fails}

UploadA == Join("uploads", <<"a", ".png">>)

\* (price, in_stock) of a product dict, as far as it has these keys
Snapshot(product) == [k \in DOMAIN product \cap {"price", "in_stock"} |-> product[k]]

Threads == {1, 2}
IdleReader ==
    [pc |-> "idle", dets |-> <<>>, used |-> 0, pos |-> 0, lookup |-> <<>>, i |-> 0,
     price |-> 0, infos |-> <<>>]
IdleWriter == [pc |-> "idle", pid |-> <<>>, body |-> <<>>, ref |-> 0]

\* no thread runs beside the process_image call
NoThreads ==
    /\ reader = IdleReader
    /\ writers = [t \in Threads |-> IdleWriter]
    /\ ops = 0
    /\ held = [r \in DOMAIN heap |-> {Snapshot(heap[r])}]
    /\ reqs = <<>>
    /\ owner = <<>>

InitCall(catalogs, files, sizes) ==
    /\ \E c \in catalogs : products = c.products /\ heap = c.heap
    /\ NoThreads
    /\ \E f \in files : fs = (UploadA :> f)
    /\ image_path = UploadA
    /\ text_sizes = sizes
    /\ pc = "start"
    /\ detections = None
    /\ product_infos = None
    /\ canvas = None
    /\ drawn_boxes = <<>>
    /\ object_colors = <<>>
    /\ displayed_products = <<>>
    /\ labels = <<>>
    /\ ret = None

\* Matching and grouping: every catalog, every list of detections of "cat",
\* "CAT" and "dog" over two boxes, a detector that does not raise.
MatchRecords ==
    {RawRecord(0, <<0, 0, 9, 9>>), RawRecord(1, <<4, 5, 12, 13>>),
     RawRecord(2, <<0, 0, 9, 9>>)}

Init ==
    InitCall(Catalogs, ImageFiles({<<12, 12>>}, MatchRecords, {0}), {<<3, 2>>})

Spec == Init /\ [][Next]_vars

\* Detector failures and label geometry: an empty catalog or one product, one
\* class name, boxes with equal and different areas at the edges of images of
\* several sizes, every point of failure, labels from smaller to larger than
\* the image.
RenderCatalogs ==
    {c \in Catalogs : /\ Len(c.products) <= 1
                      /\ \A i \in DOMAIN c.heap :
                            c.heap[i] = [id |-> FormatId(1), name |-> str_Cat,
                                         price |-> 1, in_stock |-> TRUE]}
RenderBoxes ==
    {<<0, 1, 7, 6>>, <<6, 17, 13, 23>>, <<0, 0, 12, 13>>, <<5, 16, 12, 24>>,
     <<6, 1, 12, 25>>, <<18, 16, 24, 23>>}
\* the box of a raw record lies inside the image
InsideImage(f) ==
    \A i \in DOMAIN f.records :
        /\ 0 <= AsInt(f.records[i].box[1]) /\ AsInt(f.records[i].box[3]) <= f.w
        /\ 0 <= AsInt(f.records[i].box[2]) /\ AsInt(f.records[i].box[4]) <= f.h
RenderSizes == {<<6, 12>>, <<12, 12>>, <<12, 16>>}
TextDims == {1, 2, 4, 7, 8, 10, 13}

InitRender ==
    InitCall(RenderCatalogs,
             {f \in ImageFiles(RenderSizes, {RawRecord(0, b) : b \in RenderBoxes},
                               0..(MaxDets + 1)) :
                f.fail_at <= Len(f.records) + 1 /\ InsideImage(f)},
             TextDims \X TextDims)

SpecRender == InitRender /\ [][Next]_vars

(***************************************************************************)
(* The catalog handlers and get_product_info as concurrent threads (the     *)
(* development server serves each request in its own thread).  Every read   *)
(* or write of the shared dicts is a step of its own.                       *)
(***************************************************************************)
SetMax(S) == CHOOSE x \in S : \A y \in S : y <= x

\* an id generator that counts the products
GenerateCountId(prods) == FormatId(Len(prods) + 1)

\* app.py:54-65
GenerateNewProductId(prods) ==
    IF Len(prods) > 0
    THEN FormatId(SetMax({ParseInt(k) : k \in DictKeys(prods)}) + 1)
    ELSE FormatId(1)

\* the ids a request may name
Pids == {FormatId(n) : n \in 1..MaxId}

\* request.form of add_product and edit_product
Forms == {[name |-> nm, price |-> pr, in_stock |-> st] :
            nm \in ProductNames, pr \in Prices, st \in BOOLEAN}

\* request.get_json() of create_product and update_product: with and without
\* 'in_stock', with an 'id' of its own, and without 'price'
Jsons == {[name |-> str_Cat, price |-> 2],
          [name |-> str_dog, price |-> 1, in_stock |-> TRUE, id |-> <<9, 9, 9>>],
          [name |-> str_Cat]}

\* the dict with product[key] = value
WithKey(product, key, value) ==
    [k \in DOMAIN product \cup {key} |-> IF k = key THEN value ELSE product[k]]

\* a new product dict on the heap
Allocate(product) ==
    /\ heap' = Append(heap, product)
    /\ held' = Append(held, {Snapshot(product)})

\* an item assignment on product dict ref
Mutate(ref, key, value) ==
    /\ heap' = [heap EXCEPT ![ref] = WithKey(@, key, value)]
    /\ held' = [held EXCEPT ![ref] = @ \cup {Snapshot(WithKey(heap[ref], key, value))}]

Goto(t, rec) == writers' = [writers EXCEPT ![t] = rec]
\* a request is served by the first idle thread
Begin(t) ==
    /\ writers[t].pc = "idle"
    /\ \A u \in Threads : u < t => writers[u].pc # "idle"
    /\ ops < MaxOps
    /\ ops' = ops + 1

\* app.py:179-180
AddProductId(t) ==
    /\ Begin(t)
    /\ ParseInt(GenerateNewProductId(products)) <= MaxId
    /\ \E form \in Forms :
        Goto(t, [pc |-> "add_store", pid |-> GenerateNewProductId(products),
                 body |-> form, ref |-> 0])
    /\ UNCHANGED uploadVars
    /\ UNCHANGED <<catalogVars, callVars, reader, held>>

\* app.py:181-188
AddProductStore(t) ==
    /\ writers[t].pc = "add_store"
    /\ Allocate([id |-> writers[t].pid, name |-> writers[t].body.name,
                 price |-> writers[t].body.price, in_stock |-> writers[t].body.in_stock])
    /\ products' = DictSet(products, writers[t].pid, Len(heap) + 1)
    /\ Goto(t, IdleWriter)
    /\ UNCHANGED uploadVars
    /\ UNCHANGED <<callVars, reader, ops>>

\* app.py:90-94
CreateProductId(t) ==
    /\ Begin(t)
    /\ ParseInt(GenerateNewProductId(products)) <= MaxId
    /\ \E json \in Jsons :
        IF "name" \notin DOMAIN json \/ "price" \notin DOMAIN json
        THEN Goto(t, IdleWriter)
        ELSE Goto(t, [pc |-> "create_store", pid |-> GenerateNewProductId(products),
                      body |-> json, ref |-> 0])
    /\ UNCHANGED uploadVars
    /\ UNCHANGED <<catalogVars, callVars, reader, held>>

\* app.py:95-97
CreateProductStore(t) ==
    /\ writers[t].pc = "create_store"
    /\ Allocate(WithKey(writers[t].body, "id", writers[t].pid))
    /\ products' = DictSet(products, writers[t].pid, Len(heap) + 1)
    /\ Goto(t, IdleWriter)
    /\ UNCHANGED uploadVars
    /\ UNCHANGED <<callVars, reader, ops>>

\* app.py:129-132
UpdateProductCheck(t) ==
    /\ Begin(t)
    /\ \E pid \in Pids, json \in Jsons :
        IF ~DictHas(products, pid) \/ "name" \notin DOMAIN json \/ "price" \notin DOMAIN json
        THEN Goto(t, IdleWriter)
        ELSE Goto(t, [pc |-> "update_store", pid |-> pid, body |-> json, ref |-> 0])
    /\ UNCHANGED uploadVars
    /\ UNCHANGED <<catalogVars, callVars, reader, held>>

\* app.py:133-135
UpdateProductStore(t) ==
    /\ writers[t].pc = "update_store"
    /\ Allocate(WithKey(writers[t].body, "id", writers[t].pid))
    /\ products' = DictSet(products, writers[t].pid, Len(heap) + 1)
    /\ Goto(t, IdleWriter)
    /\ UNCHANGED uploadVars
    /\ UNCHANGED <<callVars, reader, ops>>

\* app.py:204-207
EditProductGet(t) ==
    /\ Begin(t)
    /\ \E pid \in Pids, form \in Forms :
        IF ~DictHas(products, pid)
        THEN Goto(t, IdleWriter)
        ELSE Goto(t, [pc |-> "edit_name", pid |-> pid, body |-> form,
                      ref |-> DictGet(products, pid)])
    /\ UNCHANGED uploadVars
    /\ UNCHANGED <<catalogVars, callVars, reader, held>>

\* app.py:208
EditProductName(t) ==
    /\ writers[t].pc = "edit_name"
    /\ Mutate(writers[t].ref, "name", writers[t].body.name)
    /\ Goto(t, [writers[t] EXCEPT !.pc = "edit_price"])
    /\ UNCHANGED uploadVars
    /\ UNCHANGED <<products, callVars, reader, ops>>

\* app.py:209
EditProductPrice(t) ==
    /\ writers[t].pc = "edit_price"
    /\ Mutate(writers[t].ref, "price", writers[t].body.price)
    /\ Goto(t, [writers[t] EXCEPT !.pc = "edit_stock"])
    /\ UNCHANGED uploadVars
    /\ UNCHANGED <<products, callVars, reader, ops>>

\* app.py:210-211
EditProductInStock(t) ==
    /\ writers[t].pc = "edit_stock"
    /\ Mutate(writers[t].ref, "in_stock", writers[t].body.in_stock)
    /\ Goto(t, IdleWriter)
    /\ UNCHANGED uploadVars
    /\ UNCHANGED <<products, callVars, reader, ops>>

\* app.py:151 and 155
DeleteProductCheck(t) ==
    /\ Begin(t)
    /\ \E pid \in Pids :
        IF ~DictHas(products, pid)
        THEN Goto(t, IdleWriter)
        ELSE Goto(t, [pc |-> "delete_del", pid |-> pid, body |-> <<>>, ref |-> 0])
    /\ UNCHANGED uploadVars
    /\ UNCHANGED <<catalogVars, callVars, reader, held>>

\* app.py:152-153; del raises KeyError when the key has gone meanwhile
DeleteProductDel(t) ==
    /\ writers[t].pc = "delete_del"
    /\ products' = IF DictHas(products, writers[t].pid)
                   THEN DictDel(products, writers[t].pid) ELSE products
    /\ Goto(t, IdleWriter)
    /\ UNCHANGED uploadVars
    /\ UNCHANGED <<heap, callVars, reader, ops, held>>

\* app.py:227 and 231
DeleteProductWebCheck(t) ==
    /\ Begin(t)
    /\ \E pid \in Pids :
        IF ~DictHas(products, pid)
        THEN Goto(t, IdleWriter)
        ELSE Goto(t, [pc |-> "delete_web_del", pid |-> pid, body |-> <<>>, ref |-> 0])
    /\ UNCHANGED uploadVars
    /\ UNCHANGED <<catalogVars, callVars, reader, held>>

\* app.py:228-229
DeleteProductWebDel(t) ==
    /\ writers[t].pc = "delete_web_del"
    /\ products' = IF DictHas(products, writers[t].pid)
                   THEN DictDel(products, writers[t].pid) ELSE products
    /\ Goto(t, IdleWriter)
    /\ UNCHANGED uploadVars
    /\ UNCHANGED <<heap, callVars, reader, ops, held>>

\* app.py:331-332: the iterator over products.values() is created
GpiIter ==
    /\ reader.pc = "begin"
    /\ reader' = [reader EXCEPT !.pc = "build", !.used = Len(products), !.pos = 1]
    /\ UNCHANGED uploadVars
    /\ UNCHANGED <<catalogVars, callVars, writers, ops, held>>

\* app.py:332: one step of the dict comprehension.  The iterator raises
\* RuntimeError ("dictionary changed size during iteration") when the dict
\* has not the size it had when the iterator was created; it tests this
\* before it tests for its end.  (A dict that has its old size again after a
\* delete and an insert is iterated on as it then is.)
GpiNext ==
    /\ reader.pc = "build"
    /\ IF Len(products) # reader.used
       THEN reader' = [reader EXCEPT !.pc = "RuntimeError"]
       ELSE IF reader.pos > Len(products)
       THEN reader' = [reader EXCEPT !.pc = "loop", !.i = 1]
       ELSE LET ref == products[reader.pos][2]
            IN  reader' = [reader EXCEPT
                    !.lookup = DictSet(@, Lower(heap[ref].name), ref),
                    !.pos = @ + 1]
    /\ UNCHANGED uploadVars
    /\ UNCHANGED <<catalogVars, callVars, writers, ops, held>>

\* app.py:333-336 and 344
GpiTest ==
    /\ reader.pc = "loop"
    /\ IF reader.i > Len(reader.dets)
       THEN reader' = [reader EXCEPT !.pc = "done"]
       ELSE IF Matches(reader.lookup, reader.dets[reader.i].class_name)
       THEN reader' = [reader EXCEPT !.pc = "price"]
       ELSE reader' = [reader EXCEPT !.i = @ + 1]
    /\ UNCHANGED uploadVars
    /\ UNCHANGED <<catalogVars, callVars, writers, ops, held>>

\* app.py:340: product['price']
GpiPrice ==
    /\ reader.pc = "price"
    /\ LET ref == DictGet(reader.lookup, Lower(reader.dets[reader.i].class_name))
       IN  reader' = [reader EXCEPT !.pc = "stock", !.price = heap[ref].price]
    /\ UNCHANGED uploadVars
    /\ UNCHANGED <<catalogVars, callVars, writers, ops, held>>

\* app.py:341-343: product['in_stock'], then the append
GpiInStock ==
    /\ reader.pc = "stock"
    /\ LET ref == DictGet(reader.lookup, Lower(reader.dets[reader.i].class_name))
       IN  IF "in_stock" \notin DOMAIN heap[ref]
           THEN reader' = [reader EXCEPT !.pc = "KeyError"]
           ELSE reader' = [reader EXCEPT
                    !.pc = "loop",
                    !.i = @ + 1,
                    !.infos = Append(@, [class_name |-> Lower(reader.dets[reader.i].class_name),
                                         bbox |-> reader.dets[reader.i].bbox,
                                         price |-> reader.price,
                                         in_stock |-> heap[ref].in_stock])]
    /\ UNCHANGED uploadVars
    /\ UNCHANGED <<catalogVars, callVars, writers, ops, held>>

NextConc ==
    \/ GpiIter \/ GpiNext \/ GpiTest \/ GpiPrice \/ GpiInStock
    \/ \E t \in Threads :
        \/ AddProductId(t) \/ AddProductStore(t)
        \/ CreateProductId(t) \/ CreateProductStore(t)
        \/ UpdateProductCheck(t) \/ UpdateProductStore(t)
        \/ EditProductGet(t) \/ EditProductName(t) \/ EditProductPrice(t)
        \/ EditProductInStock(t)
        \/ DeleteProductCheck(t) \/ DeleteProductDel(t)
        \/ DeleteProductWebCheck(t) \/ DeleteProductWebDel(t)

\* One get_product_info call on a list of "cat" and "dog" detections, beside
\* at most MaxOps catalog requests on two threads, from the empty catalog or a
\* catalog of one product "001".
ConcCatalogs ==
    {c \in Catalogs : Len(c.products) <= 1
                        /\ \A i \in DOMAIN c.heap :
                                c.heap[i].price = 1 /\ c.heap[i].id = FormatId(1)}
ConcDetections ==
    SeqUpTo({[class_name |-> nm, bbox |-> <<0, 0, 4, 4>>, score |-> 90] :
                nm \in {str_cat, str_dog}}, MaxDets)

InitConc ==
    /\ \E c \in ConcCatalogs : products = c.products /\ heap = c.heap
    /\ \E dets \in ConcDetections : reader = [IdleReader EXCEPT !.pc = "begin", !.dets = dets]
    /\ writers = [t \in Threads |-> IdleWriter]
    /\ ops = 0
    /\ held = [r \in DOMAIN heap |-> {Snapshot(heap[r])}]
    /\ reqs = <<>>
    /\ owner = <<>>
    /\ fs = <<>>
    /\ image_path = UploadA
    /\ text_sizes = {}
    /\ pc = "idle"
    /\ detections = None
    /\ product_infos = None
    /\ canvas = None
    /\ drawn_boxes = <<>>
    /\ object_colors = <<>>
    /\ displayed_products = <<>>
    /\ labels = <<>>
    /\ ret = None

SpecConc == InitConc /\ [][NextConc]_vars

\* The catalog handlers one after the other: one thread serves at most
\* MaxOps requests, each to its end, from a catalog with any set of ids.
SeqCatalogs ==
    {c \in Catalogs : \A i \in DOMAIN c.heap :
        c.heap[i].name = str_Cat /\ "in_stock" \in DOMAIN c.heap[i] /\ c.heap[i].in_stock}
NextSeq ==
    \E t \in {1} :
        \/ AddProductId(t) \/ AddProductStore(t)
        \/ CreateProductId(t) \/ CreateProductStore(t)
        \/ UpdateProductCheck(t) \/ UpdateProductStore(t)
        \/ EditProductGet(t) \/ EditProductName(t) \/ EditProductPrice(t)
        \/ EditProductInStock(t)
        \/ DeleteProductCheck(t) \/ DeleteProductDel(t)
        \/ DeleteProductWebCheck(t) \/ DeleteProductWebDel(t)

InitSeq ==
    /\ \E c \in SeqCatalogs : products = c.products /\ heap = c.heap
    /\ NoThreads
    /\ fs = <<>>
    /\ image_path = UploadA
    /\ text_sizes = {}
    /\ pc = "idle"
    /\ detections = None
    /\ product_infos = None
    /\ canvas = None
    /\ drawn_boxes = <<>>
    /\ object_colors = <<>>
    /\ displayed_products = <<>>
    /\ labels = <<>>
    /\ ret = None

SpecSeq == InitSeq /\ [][NextSeq]_vars

(***************************************************************************)
(* upload_image, with two requests served concurrently.  A file name is a   *)
(* sequence of tokens; every access to the upload folder is a step.         *)
(***************************************************************************)
\* app.py:40
AllowedExtensions == {".png", ".jpg", ".jpeg"}

IsExtension(tok) == tok \in {".png", ".jpg", ".jpeg", ".JPG", ".gif"}
ExtensionLower(tok) == IF tok = ".JPG" THEN ".jpg" ELSE tok

\* app.py:52: the text after the last '.' of the names used here is their
\* last token
AllowedFile(filename) ==
    /\ Len(filename) > 0
    /\ IsExtension(filename[Len(filename)])
    /\ ExtensionLower(filename[Len(filename)]) \in AllowedExtensions

\* werkzeug's secure_filename: path separators and leading dots are dropped
IsSafeToken(tok) == tok # "../"
SecureFilename(filename) == SelectSeq(filename, IsSafeToken)

RECURSIVE ReplaceJpg(_)
\* app.py:457: str.replace(".jpg", "_resized.jpg"), every occurrence
ReplaceJpg(name) ==
    IF Len(name) = 0 THEN <<>>
    ELSE (IF Head(name) = ".jpg" THEN <<"_resized", ".jpg">> ELSE <<Head(name)>>)
            \o ReplaceJpg(Tail(name))

ResizedPath(path) == [path EXCEPT !.name = ReplaceJpg(@)]

Min(a, b) == IF a <= b THEN a ELSE b
\* app.py:456: img.thumbnail((1024, 1024)) only shrinks (the images here are
\* smaller)
Thumbnail(img) == [img EXCEPT !.w = Min(@, 1024), !.h = Min(@, 1024)]

IsImage(files, path) == path \in DOMAIN files /\ "w" \in DOMAIN files[path]
Remove(files, path) == [q \in DOMAIN files \ {path} |-> files[q]]

\* app.py:394-435 for every group
Labels(groups, size, img, colors) ==
    [j \in DOMAIN groups |->
        Label(groups[j][1], groups[j][2], size, img, ColorOf(colors, groups[j][1]))]

Requests == {1, 2}
NoPath == Join("", <<>>)
NewRequest(filename, content) ==
    [pc |-> "check", filename |-> filename, content |-> content, filepath |-> NoPath,
     img |-> None, detections |-> None, canvas |-> None, out |-> NoPath, shown |-> None]

SetReq(r, rec) == reqs' = [reqs EXCEPT ![r] = rec]
Writes(r, path) == owner' = (path :> r) @@ owner

\* app.py:243-251 and 273
UploadCheck(r) ==
    /\ reqs[r].pc = "check"
    /\ IF AllowedFile(reqs[r].filename)
       THEN SetReq(r, [reqs[r] EXCEPT !.pc = "save",
                        !.filepath = Join("uploads", SecureFilename(reqs[r].filename))])
       ELSE SetReq(r, [reqs[r] EXCEPT !.pc = "error_unsupported"])
    /\ UNCHANGED <<catalogVars, callVars, reader, writers, ops, held, owner>>

\* app.py:252
UploadSave(r) ==
    /\ reqs[r].pc = "save"
    /\ fs' = (reqs[r].filepath :> reqs[r].content) @@ fs
    /\ Writes(r, reqs[r].filepath)
    /\ SetReq(r, [reqs[r] EXCEPT !.pc = "verify"])
    /\ UNCHANGED <<catalogVars, image_path, text_sizes, pc, detections, product_infos,
                   canvas, object_colors, drawn_boxes, displayed_products, labels, ret,
                   reader, writers, ops, held>>

\* app.py:255-260; os.remove raises when the file has gone
UploadVerify(r) ==
    /\ reqs[r].pc = "verify"
    /\ IF IsImage(fs, reqs[r].filepath)
       THEN SetReq(r, [reqs[r] EXCEPT !.pc = "resize"]) /\ fs' = fs
       ELSE IF reqs[r].filepath \in DOMAIN fs
       THEN SetReq(r, [reqs[r] EXCEPT !.pc = "error_invalid"])
                /\ fs' = Remove(fs, reqs[r].filepath)
       ELSE SetReq(r, [reqs[r] EXCEPT !.pc = "crashed"]) /\ fs' = fs
    /\ UNCHANGED <<catalogVars, image_path, text_sizes, pc, detections, product_infos,
                   canvas, object_colors, drawn_boxes, displayed_products, labels, ret,
                   reader, writers, ops, held, owner>>

\* app.py:455-456
ResizeOpen(r) ==
    /\ reqs[r].pc = "resize"
    /\ IF IsImage(fs, reqs[r].filepath)
       THEN SetReq(r, [reqs[r] EXCEPT !.pc = "resize_save",
                        !.img = Some(Thumbnail(fs[reqs[r].filepath]))])
       ELSE SetReq(r, [reqs[r] EXCEPT !.pc = "crashed"])
    /\ UNCHANGED <<catalogVars, callVars, reader, writers, ops, held, owner>>

\* app.py:457-459 and 263
ResizeSave(r) ==
    /\ reqs[r].pc = "resize_save"
    /\ LET resized_path == ResizedPath(reqs[r].filepath)
       IN  /\ fs' = (resized_path :> reqs[r].img.val) @@ fs
           /\ Writes(r, resized_path)
           /\ SetReq(r, [reqs[r] EXCEPT !.pc = "detect", !.filepath = resized_path])
    /\ UNCHANGED <<catalogVars, image_path, text_sizes, pc, detections, product_infos,
                   canvas, object_colors, drawn_boxes, displayed_products, labels, ret,
                   reader, writers, ops, held>>

\* app.py:264 and 289-291
UploadDetect(r) ==
    /\ reqs[r].pc = "detect"
    /\ LET dets == PerformObjectDetection(fs, reqs[r].filepath)
       IN  SetReq(r, [reqs[r] EXCEPT !.detections = dets,
                        !.pc = IF dets.none THEN "remove" ELSE "overlay"])
    /\ UNCHANGED <<catalogVars, callVars, reader, writers, ops, held, owner>>

\* app.py:265-267
UploadRemove(r) ==
    /\ reqs[r].pc = "remove"
    /\ IF reqs[r].filepath \in DOMAIN fs
       THEN SetReq(r, [reqs[r] EXCEPT !.pc = "error_process"])
                /\ fs' = Remove(fs, reqs[r].filepath)
       ELSE SetReq(r, [reqs[r] EXCEPT !.pc = "crashed"]) /\ fs' = fs
    /\ UNCHANGED <<catalogVars, image_path, text_sizes, pc, detections, product_infos,
                   canvas, object_colors, drawn_boxes, displayed_products, labels, ret,
                   reader, writers, ops, held, owner>>

\* app.py:292 and 358
UploadOverlayOpen(r) ==
    /\ reqs[r].pc = "overlay"
    /\ IF GetProductInfo(reqs[r].detections.val, products, heap).kind = "return"
            /\ IsImage(fs, reqs[r].filepath)
       THEN SetReq(r, [reqs[r] EXCEPT !.pc = "overlay_save",
                        !.canvas = Some(fs[reqs[r].filepath])])
       ELSE SetReq(r, [reqs[r] EXCEPT !.pc = "crashed"])
    /\ UNCHANGED <<catalogVars, callVars, reader, writers, ops, held, owner>>

\* app.py:361-442 and 293-294
UploadOverlaySave(r) ==
    /\ reqs[r].pc = "overlay_save"
    /\ \E size \in text_sizes :
        LET infos == GetProductInfo(reqs[r].detections.val, products, heap).val
            output_image_path == OutputPath(reqs[r].filepath)
        IN  /\ \E colors \in RandomColors(infos) :
                fs' = (output_image_path :>
                        Annotated(reqs[r].canvas.val, DrawnBoxes(infos, colors),
                                  Labels(DisplayedProducts(infos), size,
                                         reqs[r].canvas.val, colors)))
                     @@ fs
            /\ Writes(r, output_image_path)
            /\ SetReq(r, [reqs[r] EXCEPT !.pc = "copy", !.out = output_image_path])
    /\ UNCHANGED <<catalogVars, image_path, text_sizes, pc, detections, product_infos,
                   canvas, object_colors, drawn_boxes, displayed_products, labels, ret,
                   reader, writers, ops, held>>

StaticPath(path) == Join("static/uploads", Basename(path))

\* app.py:269-270
UploadCopy(r) ==
    /\ reqs[r].pc = "copy"
    /\ IF reqs[r].out \in DOMAIN fs
       THEN /\ fs' = (StaticPath(reqs[r].out) :> fs[reqs[r].out]) @@ fs
            /\ Writes(r, StaticPath(reqs[r].out))
            /\ SetReq(r, [reqs[r] EXCEPT !.pc = "render"])
       ELSE /\ SetReq(r, [reqs[r] EXCEPT !.pc = "crashed"])
            /\ UNCHANGED <<fs, owner>>
    /\ UNCHANGED <<catalogVars, image_path, text_sizes, pc, detections, product_infos,
                   canvas, object_colors, drawn_boxes, displayed_products, labels, ret,
                   reader, writers, ops, held>>

\* app.py:271: the page shows static/uploads/<image_filename>
UploadRender(r) ==
    /\ reqs[r].pc = "render"
    /\ SetReq(r, [reqs[r] EXCEPT !.pc = "displayed",
                    !.shown = Some(fs[StaticPath(reqs[r].out)])])
    /\ UNCHANGED <<catalogVars, callVars, reader, writers, ops, held, owner>>

NextUpload ==
    \E r \in Requests :
        \/ UploadCheck(r) \/ UploadSave(r) \/ UploadVerify(r)
        \/ ResizeOpen(r) \/ ResizeSave(r)
        \/ UploadDetect(r) \/ UploadRemove(r)
        \/ UploadOverlayOpen(r) \/ UploadOverlaySave(r)
        \/ UploadCopy(r) \/ UploadRender(r)

\* Request r uploads its own picture (img = r): a valid image, a valid image
\* on which the detector raises, or a file that is no image.
UploadContents(r) ==
    {[img |-> r, w |-> 12, h |-> 12, records |-> <<RawRecord(0, <<0, 0, 9, 9>>)>>,
      fail_at |-> f] : f \in {0, 1}}
    \cup {[img |-> r]}

UploadNames ==
    {<<"a", ".png">>, <<"a", ".jpg">>, <<"a", "_resized", ".jpg">>,
     <<"output_", "a", ".png">>, <<"../", "a", ".png">>, <<"a", ".gif">>}

\* the requests start as one of uploads, on an empty upload folder
InitUploads(uploads) ==
    /\ \E c \in RenderCatalogs : products = c.products /\ heap = c.heap /\ Len(c.products) = 1
    /\ reqs \in uploads
    /\ owner = <<>>
    /\ reader = IdleReader
    /\ writers = [t \in Threads |-> IdleWriter]
    /\ ops = 0
    /\ held = [r \in DOMAIN heap |-> {Snapshot(heap[r])}]
    /\ fs = <<>>
    /\ image_path = NoPath
    /\ text_sizes = {<<3, 2>>}
    /\ pc = "idle"
    /\ detections = None
    /\ product_infos = None
    /\ canvas = None
    /\ drawn_boxes = <<>>
    /\ object_colors = <<>>
    /\ displayed_products = <<>>
    /\ labels = <<>>
    /\ ret = None

InitUpload ==
    InitUploads({q \in [Requests -> {NewRequest(n, c) : n \in UploadNames,
                                        c \in UNION {UploadContents(r) : r \in Requests}}] :
                    \A r \in Requests : q[r].content \in UploadContents(r)})

SpecUpload == InitUpload /\ [][NextUpload]_vars

\* One upload request alone on an empty upload folder: every allowed
\* extension, a name with ".jpg" in its middle, and beside the contents
\* above a picture without objects and one on which the detector raises
\* while it converts the first record.
NextSingle ==
    \E r \in {1} :
        \/ UploadCheck(r) \/ UploadSave(r) \/ UploadVerify(r)
        \/ ResizeOpen(r) \/ ResizeSave(r)
        \/ UploadDetect(r) \/ UploadRemove(r)
        \/ UploadOverlayOpen(r) \/ UploadOverlaySave(r)
        \/ UploadCopy(r) \/ UploadRender(r)

SingleNames ==
    UploadNames \cup {<<"a", ".jpeg">>, <<"a", ".JPG">>, <<"a", ".jpg", ".png">>}

SingleContents ==
    UploadContents(1)
    \cup {[img |-> 1, w |-> 12, h |-> 12, records |-> <<>>, fail_at |-> 0],
          [img |-> 1, w |-> 12, h |-> 12, records |-> <<RawRecord(0, <<0, 0, 9, 9>>)>>,
           fail_at |-> 2]}

InitSingle ==
    InitUploads({<<NewRequest(n, c)>> : n \in SingleNames, c \in SingleContents})

SpecSingle == InitSingle /\ [][NextSingle]_vars

(***************************************************************************)
(* Properties.                                                             *)
(***************************************************************************)
\* the lower-cased names of the catalog's products
CatalogNames == {Lower(heap[products[k][2]].name) : k \in DOMAIN products}

\* the positions of the detections whose lower-cased class name is the
\* lower-cased name of a product
MatchedIdx(dets) == {i \in DOMAIN dets : Lower(dets[i].class_name) \in CatalogNames}

\* the j-th of them, in input order
NthMatched(dets, j) ==
    LET idx == MatchedIdx(dets)
    IN  CHOOSE i \in idx : Cardinality({k \in idx : k < i}) = j - 1

\* overlay_product_info has built displayed_products
GroupsBuilt == pc = "labelling" \/ (pc = "done" /\ ~ret.none)

\* C1: whenever get_product_info returns, its product_infos are, in input
\* order, the detections whose lower-cased class name equals the lower-cased
\* name of a catalog product (one entry for each of them, none for the others),
\* and no product_info and no group of displayed_products carries the
\* lower-cased class name of a detection that has no catalog product.
C1_MatchIffNameInCatalog ==
    ~product_infos.none =>
        LET dets == detections.val
            infos == product_infos.val
        IN  /\ Len(infos) = Cardinality(MatchedIdx(dets))
            /\ \A j \in DOMAIN infos :
                LET det == dets[NthMatched(dets, j)]
                IN  /\ infos[j].class_name = Lower(det.class_name)
                    /\ infos[j].bbox = det.bbox
            /\ \A i \in DOMAIN dets \ MatchedIdx(dets) :
                /\ \A j \in DOMAIN infos : infos[j].class_name # Lower(dets[i].class_name)
                /\ ~DictHas(displayed_products, Lower(dets[i].class_name))
                /\ \A j \in DOMAIN drawn_boxes :
                        drawn_boxes[j].class_name # Lower(dets[i].class_name)

\* C1 witness: the groups are built for a detection list with a detection
\* matched across letter case and a detection without catalog product.
C1_Witness ==
    /\ GroupsBuilt
    /\ \E i \in MatchedIdx(detections.val) :
            /\ detections.val[i].class_name # Lower(detections.val[i].class_name)
            /\ DictHas(displayed_products, Lower(detections.val[i].class_name))
    /\ DOMAIN detections.val \ MatchedIdx(detections.val) # {}

\* C2: the number of groups of displayed_products equals the number of
\* distinct lower-cased class names among the matched detections, every group
\* has at least one box and no two groups have the same key.
C2_OneGroupPerName ==
    GroupsBuilt =>
        LET dets == detections.val
        IN  /\ Len(displayed_products) =
                    Cardinality({Lower(dets[i].class_name) : i \in MatchedIdx(dets)})
            /\ \A g \in DOMAIN displayed_products :
                    Len(displayed_products[g][2].bboxes) >= 1
            /\ \A g, k \in DOMAIN displayed_products :
                    g # k => displayed_products[g][1] # displayed_products[k][1]

\* C2 witness: two matched detections whose class names differ only in
\* letter case share one group of two boxes.
C2_Witness ==
    /\ GroupsBuilt
    /\ \E i, k \in MatchedIdx(detections.val) :
            /\ detections.val[i].class_name # detections.val[k].class_name
            /\ Lower(detections.val[i].class_name) = Lower(detections.val[k].class_name)
    /\ \E g \in DOMAIN displayed_products : Len(displayed_products[g][2].bboxes) = 2

\* C3: the anchor of every label is a box of its group with maximum area,
\* and the first such box of the group's box sequence.
C3_AnchorIsFirstLargest ==
    \A j \in DOMAIN labels :
        LET bboxes == displayed_products[j][2].bboxes
        IN  \E i \in DOMAIN bboxes :
                /\ labels[j].anchor = bboxes[i]
                /\ \A k \in DOMAIN bboxes :
                        (bboxes[k][3] - bboxes[k][1]) * (bboxes[k][4] - bboxes[k][2])
                            <= (bboxes[i][3] - bboxes[i][1]) * (bboxes[i][4] - bboxes[i][2])
                /\ \A k \in 1..(i - 1) :
                        (bboxes[k][3] - bboxes[k][1]) * (bboxes[k][4] - bboxes[k][2])
                            < (bboxes[i][3] - bboxes[i][1]) * (bboxes[i][4] - bboxes[i][2])

\* C3 witness: a label is placed for a group whose first two boxes differ and
\* both have the maximum area.
C3_Witness ==
    \E j \in DOMAIN labels :
        LET bboxes == displayed_products[j][2].bboxes
        IN  /\ Len(bboxes) >= 2
            /\ bboxes[1] # bboxes[2]
            /\ Area(bboxes[1]) = Area(bboxes[2])
            /\ \A k \in DOMAIN bboxes : Area(bboxes[k]) <= Area(bboxes[1])
            /\ labels[j].anchor = bboxes[1]

\* C4 as stated: every label rectangle lies inside the image, whatever the
\* measured size of the label.
C4_LabelInsideImage ==
    \A j \in DOMAIN labels :
        /\ 0 <= labels[j].text_x
        /\ labels[j].text_x + labels[j].text_width <= canvas.val.w
        /\ 0 <= labels[j].text_y
        /\ labels[j].text_y + labels[j].text_height <= canvas.val.h

\* C4 amended: every label whose measured size leaves the 5 pixel margin
\* (w + 5 <= W and h + 5 <= H), placed for an anchor box inside the image,
\* lies inside the image.
C4_FittingLabelInsideImage ==
    \A j \in DOMAIN labels :
        (/\ labels[j].text_width + 5 <= canvas.val.w
         /\ labels[j].text_height + 5 <= canvas.val.h
         /\ 0 <= labels[j].anchor[1] /\ labels[j].anchor[3] <= canvas.val.w
         /\ 0 <= labels[j].anchor[2] /\ labels[j].anchor[4] <= canvas.val.h)
        => /\ 0 <= labels[j].text_x
           /\ labels[j].text_x + labels[j].text_width <= canvas.val.w
           /\ 0 <= labels[j].text_y
           /\ labels[j].text_y + labels[j].text_height <= canvas.val.h

\* C4 witness: a label that leaves the margin is moved left and is moved from
\* below the box to the bottom of the image.
C4_Witness ==
    \E j \in DOMAIN labels :
        /\ labels[j].text_width + 5 <= canvas.val.w
        /\ labels[j].text_height + 5 <= canvas.val.h
        /\ labels[j].anchor[1] + labels[j].text_width > canvas.val.w
        /\ labels[j].anchor[2] - labels[j].text_height - 5 < 0
        /\ labels[j].anchor[4] + 5 + labels[j].text_height > canvas.val.h

\* C5 as stated: for an anchor box with y_min = 0 the label's y origin is
\* y_max + 5 and not negative, whatever the image and label heights.
C5_BelowBoxWhenAtTop ==
    \A j \in DOMAIN labels :
        labels[j].anchor[2] = 0 =>
            /\ labels[j].text_y = labels[j].anchor[4] + 5
            /\ labels[j].text_y >= 0

\* C5 amended: for an anchor box with y_min = 0 and a label that fits below it
\* (y_max + 5 + h <= H), the label's y origin is y_max + 5 and not negative.
C5_BelowBoxWhenAtTopAndRoom ==
    \A j \in DOMAIN labels :
        (/\ labels[j].anchor[2] = 0
         /\ labels[j].anchor[4] + 5 + labels[j].text_height <= canvas.val.h)
        => /\ labels[j].text_y = labels[j].anchor[4] + 5
           /\ labels[j].text_y >= 0

\* C5 witness: a label is placed for an anchor box with y_min = 0 and room
\* below it.
C5_Witness ==
    \E j \in DOMAIN labels :
        /\ labels[j].anchor[2] = 0
        /\ labels[j].anchor[4] + 5 + labels[j].text_height <= canvas.val.h
        /\ labels[j].text_y = labels[j].anchor[4] + 5

\* C6: the left edge of every label is W - W_label - 5 when
\* x_min + W_label > W, and x_min otherwise.
C6_LeftEdge ==
    \A j \in DOMAIN labels :
        IF labels[j].anchor[1] + labels[j].text_width > canvas.val.w
        THEN labels[j].text_x = canvas.val.w - labels[j].text_width - 5
        ELSE labels[j].text_x = labels[j].anchor[1]

\* C6 witness: a label wider than the room right of x_min has been placed.
C6_Witness ==
    \E j \in DOMAIN labels :
        /\ labels[j].anchor[1] > 0
        /\ labels[j].anchor[1] + labels[j].text_width > canvas.val.w
        /\ labels[j].text_x = canvas.val.w - labels[j].text_width - 5

\* the detector raises on the image being processed
DetectorRaises ==
    image_path \in DOMAIN fs /\ "fail_at" \in DOMAIN fs[image_path]
        /\ fs[image_path].fail_at # 0

\* C7: when the detector raises, on invocation or while any record is
\* converted, perform_object_detection returns None and process_image returns
\* None: get_product_info and overlay_product_info are never entered and no
\* file is written.
C7_DetectorFailureAborts ==
    DetectorRaises =>
        /\ pc \in {"start", "done"}
        /\ product_infos = None /\ canvas = None
        /\ drawn_boxes = <<>> /\ displayed_products = <<>> /\ labels = <<>>
        /\ DOMAIN fs = {image_path}
        /\ ret = None
        /\ pc = "done" => detections = None

\* C7 witness: process_image has returned after the detector raised while
\* converting its second record.
C7_Witness ==
    /\ pc = "done"
    /\ DetectorRaises
    /\ fs[image_path].fail_at = 3
    /\ Len(fs[image_path].records) >= 2

\* C8: when detection succeeds and no detection matches the catalog,
\* process_image does not raise and runs to its return, it returns
\* uploads/output_<basename of the input>, the file saved there is the input
\* image with no box and no label drawn.
C8_NoMatchStillSaves ==
    (~DetectorRaises /\ (~detections.none => MatchedIdx(detections.val) = {})) =>
        /\ pc # "raised"
        /\ pc # "done" => ENABLED Next
        /\ pc = "done" =>
            /\ ret = Some([dir |-> "uploads", name |-> <<"output_">> \o image_path.name])
            /\ ret.val \in DOMAIN fs
            /\ fs[ret.val].base = fs[image_path]
            /\ fs[ret.val].boxes = <<>>
            /\ fs[ret.val].labels = <<>>
            /\ drawn_boxes = <<>> /\ labels = <<>>

\* C8 witness: process_image has returned for a non-empty detection list and
\* a non-empty catalog without any match.
C8_Witness ==
    /\ pc = "done"
    /\ ~detections.none
    /\ Len(detections.val) >= 1
    /\ Len(products) >= 1
    /\ MatchedIdx(detections.val) = {}
    /\ ~ret.none

\* the product dict a product_info of the running get_product_info call was
\* read from
InfoRef(info) == DictGet(reader.lookup, info.class_name)

\* C9 as stated: the (price, in_stock) pair of every product_info is a pair
\* the matched product dict held at one moment, and all product_infos of the
\* same entity carry the same pair.  (The third part, that a later mutation
\* does not change a returned product_info, is C9_ReturnedInfosKept.)
C9_SnapshotAtMatchTime ==
    /\ \A j \in DOMAIN reader.infos :
            [price |-> reader.infos[j].price, in_stock |-> reader.infos[j].in_stock]
                \in held[InfoRef(reader.infos[j])]
    /\ \A j, k \in DOMAIN reader.infos :
            reader.infos[j].class_name = reader.infos[k].class_name
                => /\ reader.infos[j].price = reader.infos[k].price
                   /\ reader.infos[j].in_stock = reader.infos[k].in_stock

\* the product_infos appended so far are never changed by a later step
C9_ReturnedInfosKept ==
    [][\A j \in DOMAIN reader.infos :
            j \in DOMAIN reader'.infos /\ reader'.infos[j] = reader.infos[j]]_vars

\* C10 (displayed result): a request that reaches the result page is shown
\* the annotation of the picture it uploaded itself.
C10_DisplaysOwnAnnotation ==
    \A r \in Requests :
        reqs[r].pc = "displayed" =>
            /\ "w" \in DOMAIN reqs[r].content
            /\ reqs[r].shown.val.base = Thumbnail(reqs[r].content)

\* C10: two uploads served concurrently do not interfere, whatever the two
\* file names: while a request still needs its uploaded, resized or output
\* file, the file exists and was last written by that request, and the
\* result page shows the annotation of the request's own picture.
C10_RequestsIsolated ==
    /\ \A r \in Requests :
        /\ reqs[r].pc \in {"verify", "resize"} =>
            /\ reqs[r].filepath \in DOMAIN fs
            /\ owner[reqs[r].filepath] = r
            /\ fs[reqs[r].filepath] = reqs[r].content
        /\ reqs[r].pc \in {"detect", "remove", "overlay"} =>
            /\ reqs[r].filepath \in DOMAIN fs
            /\ owner[reqs[r].filepath] = r
        /\ reqs[r].pc = "copy" =>
            /\ reqs[r].out \in DOMAIN fs
            /\ owner[reqs[r].out] = r
    /\ C10_DisplaysOwnAnnotation

\* The file names two requests use at any stage (upload, resized, output)
NamesUsed(filename) ==
    LET saved == SecureFilename(filename)
    IN  {saved, ReplaceJpg(saved), <<"output_">> \o ReplaceJpg(saved)}

\* C10 restricted to requests whose file names never meet: these do not
\* interfere.
C10_DisjointNamesIsolated ==
    (NamesUsed(reqs[1].filename) \cap NamesUsed(reqs[2].filename) = {})
        => C10_RequestsIsolated

C10_DisjointNamesWitness ==
    /\ NamesUsed(reqs[1].filename) \cap NamesUsed(reqs[2].filename) = {}
    /\ \A r \in Requests : reqs[r].pc = "displayed"

\* C11: a get_product_info call that enumerates products while add_product,
\* create_product, delete_product or delete_product_web run never ends in
\* the error of a catalog that changed during the enumeration.
C11_EnumerationCompletes ==
    reader.pc # "RuntimeError"

\* the index of the first product_info with the given key
FirstSeen(pinfos, key) ==
    CHOOSE i \in DOMAIN pinfos :
        /\ Lower(pinfos[i].class_name) = key
        /\ \A j \in 1..(i - 1) : Lower(pinfos[j].class_name) # key

KeyIdx(dets, key) == {i \in MatchedIdx(dets) : Lower(dets[i].class_name) = key}

\* the boxes of the detections at the positions S, in input order
BoxesAt(dets, S) ==
    [j \in 1..Cardinality(S) |->
        dets[CHOOSE i \in S : Cardinality({k \in S : k < i}) = j - 1].bbox]

\* C13: the groups of displayed_products are in the order in which their
\* keys first appear in the detection sequence, and the boxes of a group are
\* the boxes of all matched detections with that lower-cased name, in input
\* order.
C13_GroupsInInputOrder ==
    GroupsBuilt =>
        LET dets == detections.val
        IN  /\ \A g, k \in DOMAIN displayed_products :
                    g < k => \E i \in KeyIdx(dets, displayed_products[g][1]) :
                                \A j \in KeyIdx(dets, displayed_products[k][1]) : i < j
            /\ \A g \in DOMAIN displayed_products :
                    displayed_products[g][2].bboxes
                        = BoxesAt(dets, KeyIdx(dets, displayed_products[g][1]))

\* C13 witness: two groups are built in the order of the detections, which
\* is not the order of the catalog.
C13_Witness ==
    /\ GroupsBuilt
    /\ Len(displayed_products) = 2
    /\ Len(products) = 2
    /\ displayed_products[1][1] = Lower(heap[products[2][2]].name)
    /\ displayed_products[2][1] = Lower(heap[products[1][2]].name)

\* C13 witness of the second part: a group holds two different boxes.
C13_TwoBoxesWitness ==
    /\ GroupsBuilt
    /\ \E g \in DOMAIN displayed_products :
            /\ Len(displayed_products[g][2].bboxes) = 2
            /\ displayed_products[g][2].bboxes[1] # displayed_products[g][2].bboxes[2]

\* every key of products maps to a product dict whose 'id' is the key
IdFieldIsKey ==
    \A k \in DOMAIN products :
        /\ "id" \in DOMAIN heap[products[k][2]]
        /\ heap[products[k][2]].id = products[k][1]

\* thread t stores the product of a create_product or add_product request
CreateStores(t) ==
    /\ writers[t].pc \in {"add_store", "create_store"}
    /\ writers'[t].pc = "idle"

\* C14: with the handlers run one after the other, every key of products
\* maps to a product whose 'id' is that key, and every create stores its
\* product under an id that was no key just before, so that products grows
\* by exactly one and keeps every product it held.
C14_IdsUniqueWhenSequential ==
    /\ []IdFieldIsKey
    /\ [][\A t \in Threads : CreateStores(t) =>
            /\ ~DictHas(products, writers[t].pid)
            /\ Len(products') = Len(products) + 1
            /\ DictHas(products', writers[t].pid)
            /\ \A k \in DOMAIN products : products'[k] = products[k]]_vars

\* C14 witness: a create is about to store under an id that a deleted
\* product had before.
C14_Witness ==
    \E t \in Threads :
        /\ writers[t].pc \in {"add_store", "create_store"}
        /\ ~DictHas(products, writers[t].pid)
        /\ \E r \in DOMAIN heap : heap[r].id = writers[t].pid
        /\ Len(products) >= 1

\* C15: two create requests served at the same time hold different ids
\* between their generate_new_product_id and their store, so that neither
\* store overwrites the product of the other.
C15_ConcurrentCreatesDistinctIds ==
    \A t, u \in Threads :
        (/\ t # u
         /\ writers[t].pc \in {"add_store", "create_store"}
         /\ writers[u].pc \in {"add_store", "create_store"})
        => writers[t].pid # writers[u].pid

\* the request has answered with an error page after its file was saved
ErrorAfterSave(r) == reqs[r].pc \in {"error_invalid", "error_process"}

\* C16: a request that ends with an error page after its file was saved
\* leaves no file it created in the upload folder, neither the saved upload
\* nor the resized copy, whatever the allowed extension.
C16_ErrorPageLeavesNoFile ==
    \A r \in DOMAIN reqs :
        ErrorAfterSave(r) => \A path \in DOMAIN fs : owner[path] # r

\* C16 for file names without ".jpg" (resize_image then saves in place): the
\* error page leaves no file of the request.
C16_InPlaceLeavesNoFile ==
    \A r \in DOMAIN reqs :
        (ErrorAfterSave(r) /\ ".jpg" \notin Range(reqs[r].filename))
            => \A path \in DOMAIN fs : owner[path] # r

\* a ".png" upload has ended with the error page of process_image
C16_InPlaceWitness ==
    \E r \in DOMAIN reqs :
        /\ reqs[r].pc = "error_process"
        /\ reqs[r].filename = <<"a", ".png">>

====
